---- MODULE Spec2Model ----
(***************************************************************************)
(* Client-side session management of the Task-Manager front end:           *)
(* ApiService (token check, 401 handling, clearAuthData) and AuthProvider  *)
(* (useState initializer, initializeAuth effect, login, register,          *)
(* refreshProfile, logout, the token-validation interval), both in         *)
(* src/lib/api-service.ts.                                                 *)
(***************************************************************************)
EXTENDS Integers, Sequences, FiniteSets, TLC

\* ---------------------------------------------------------------- bounds
\* number of clock advances explored
MaxTicks == 2
\* number of requests that can be in flight together
MaxInFlight == 2
\* most dot-separated segments of a probed token
MaxSegs == 4
\* largest exp claim (seconds) and clock reading (ticks) of a probe
MaxProbe == 3
\* milliseconds added to Date.now() by one clock advance
TickMs == 500
\* most tasks in the task list
MaxTasks == 2

\* ------------------------------------------------------ program constants
\* Date.now() / 1000
MsPerSecond == 1000
\* timeUntilExpiry < 600
RefreshHorizon == 600

\* ------------------------------------------------------------------ users
Undef == "undefined"

Accounts == {1, 2}

\* the profiles the backend can answer with; account 2 has no timestamps
\* (createdAt? / updatedAt? are optional in the User interface)
ServerUsers ==
  { [id |-> "id1", name |-> "A",  email |-> "a@b.com",
     createdAt |-> "t0", updatedAt |-> "t0"],
    [id |-> "id1", name |-> "A2", email |-> "a@b.com",
     createdAt |-> "t0", updatedAt |-> "t1"],
    [id |-> "id2", name |-> "B",  email |-> "b@b.com",
     createdAt |-> Undef, updatedAt |-> Undef] }

\* the account a profile belongs to
AcctOf(u) == IF u.id = "id1" THEN 1 ELSE 2

\* the object literal { _id, name, email, createdAt, updatedAt } built from a
\* response body
ToUserData(d) ==
  [id |-> d.id, name |-> d.name, email |-> d.email,
   createdAt |-> d.createdAt, updatedAt |-> d.updatedAt]

\* JSON.stringify of a user object: the properties in order, the undefined
\* ones left out
JSONStringify(u) ==
  [json |-> TRUE,
   pairs |-> SelectSeq(<< <<"_id", u.id>>, <<"name", u.name>>,
                          <<"email", u.email>>, <<"createdAt", u.createdAt>>,
                          <<"updatedAt", u.updatedAt>> >>,
                       LAMBDA p : p[2] # Undef)]

\* property lookup on a parsed object: a missing key reads as undefined
GetProp(pairs, k) ==
  IF \E i \in 1..Len(pairs) : pairs[i][1] = k
  THEN pairs[CHOOSE i \in 1..Len(pairs) : pairs[i][1] = k][2]
  ELSE Undef

\* JSON.parse of a stored 'user' string (s.json = FALSE: it throws)
JSONParseUser(s) ==
  [id |-> GetProp(s.pairs, "_id"), name |-> GetProp(s.pairs, "name"),
   email |-> GetProp(s.pairs, "email"),
   createdAt |-> GetProp(s.pairs, "createdAt"),
   updatedAt |-> GetProp(s.pairs, "updatedAt")]

\* a 'user' entry that is not JSON
CorruptEntry == [json |-> FALSE, pairs |-> <<>>]

\* user._id && user.name && user.email
HasIdNameEmail(u) == u.id # Undef /\ u.name # Undef /\ u.email # Undef

\* ----------------------------------------------------------------- tokens
\* A token string is described by what the decoding steps see:
\*   segs  number of dot-separated segments
\*   enc   alphabet of segment [1]: "std" (only characters atob accepts),
\*         "url" (base64url with '-' or '_'), "bad" (not base64 at all)
\*   body  what segment [1] decodes to: "text" (not JSON), "null" (JSON null),
\*         "prim" (a JSON number/string/boolean), "noexp" (object without
\*         exp), "strexp" (object whose exp is a non-numeric string),
\*         "num" (object with numeric exp)
\*   exp   the exp claim in seconds (0 unless body = "num")
\*   acct  the account the backend issued it to (0: none)
Tok(segs, enc, body, exp, acct) ==
  [segs |-> segs, enc |-> enc, body |-> body, exp |-> exp, acct |-> acct]

\* JSON.parse(atob(token.split('.')[1])).exp
\*   thrown: one of split()[1] undefined -> atob("undefined"), atob on a
\*   non-base64 character, JSON.parse on non-JSON, property read on null
DecodeExp(t) ==
  IF t.segs < 2 THEN [thrown |-> TRUE, numeric |-> FALSE, exp |-> 0]
  ELSE IF t.enc # "std" THEN [thrown |-> TRUE, numeric |-> FALSE, exp |-> 0]
  ELSE IF t.body \in {"text", "null"}
       THEN [thrown |-> TRUE, numeric |-> FALSE, exp |-> 0]
  ELSE IF t.body = "num"
       THEN [thrown |-> FALSE, numeric |-> TRUE, exp |-> t.exp]
  ELSE [thrown |-> FALSE, numeric |-> FALSE, exp |-> 0]

\* AuthProvider.isTokenExpired: payload.exp < Date.now() / 1000, true on a
\* throw; a comparison with undefined or NaN is false
IsTokenExpired(t, now) ==
  LET d == DecodeExp(t) IN
  IF d.thrown THEN TRUE
  ELSE d.numeric /\ d.exp * MsPerSecond < now

\* ApiService.isTokenExpired
ApiIsTokenExpired(t, now) ==
  LET d == DecodeExp(t) IN
  IF d.thrown THEN TRUE
  ELSE IF d.numeric THEN d.exp * MsPerSecond < now ELSE FALSE

\* the quick check of the useState initializer: payload.exp > currentTime
QuickCheckValid(t, now) ==
  LET d == DecodeExp(t) IN
  IF d.thrown THEN FALSE
  ELSE d.numeric /\ d.exp * MsPerSecond > now


\* the exp claims (seconds) of the tokens in play: already expired at start,
\* expiring within the explored time, expiring beyond the refresh horizon
Exps == {0, 2, RefreshHorizon + 2}

\* tokens the backend issues on login / register
IssuedTokens ==
  { Tok(3, "std", "num", RefreshHorizon + 2, 1), Tok(3, "std", "num", 2, 2) }

\* what the 'token' entry can hold when the page is loaded: tokens issued
\* earlier, and strings that are not the backend's tokens
InitTokens ==
  { Tok(3, "std", "num", e, 1) : e \in Exps }
  \cup { Tok(3, "std", "noexp", 0, 1), Tok(1, "bad", "text", 0, 0) }

\* what the 'user' entry can hold when the page is loaded
InitUserEntries ==
  { JSONStringify(ToUserData(u)) : u \in {x \in ServerUsers : x.name # "A2"} }
  \cup { CorruptEntry }

\* -------------------------------------------------------------- responses
\* texts an error can carry: the backend's message field, the fallback
\* `HTTP error! status: N`, or the message of a thrown fetch / json() error
Msgs == { "Invalid credentials", "User not found", "HTTP error! status: 401" }

\* error.message.includes('401')
Includes401(m) == m \in {"HTTP error! status: 401"}

SessionExpiredMsg == "Session expired. Please login again."

\* what a fetch can come back with:
\*   ok       2xx, JSON body truthy          okFalsy  2xx, JSON body falsy
\*   okShape  2xx, truthy body without a user object (login / register)
\*   s401     status 401                      http     other non-2xx status
\*   thrown   fetch() or response.json() threw
Responses ==
  { [kind |-> k, msg |-> ""] : k \in {"ok", "okFalsy", "okShape"} }
  \cup { [kind |-> k, msg |-> m] : k \in {"s401", "http"}, m \in Msgs }
  \cup { [kind |-> "thrown", msg |-> "Failed to fetch"] }

\* the answers to a request that is not login / register: the message of a
\* 401 is not read, and the body of a 2xx is the resource itself
PlainResponses ==
  { r \in Responses : /\ r.kind # "okShape"
                      /\ r.kind = "s401" => r.msg = "Invalid credentials" }

\* ApiService.makeRequest from the arrival of the response on:
\* the ApiResponse returned, and whether clearAuthData() ran
MakeRequestResult(isAuthRequest, r) ==
  IF r.kind \in {"ok", "okFalsy", "okShape"}
  THEN [success |-> TRUE, data |-> r.kind, error |-> Undef, cleared |-> FALSE]
  ELSE IF r.kind = "s401" /\ ~isAuthRequest
  THEN [success |-> FALSE, data |-> "none", error |-> SessionExpiredMsg,
        cleared |-> TRUE]
  ELSE IF Includes401(r.msg) /\ ~isAuthRequest
  THEN [success |-> FALSE, data |-> "none", error |-> SessionExpiredMsg,
        cleared |-> TRUE]
  ELSE [success |-> FALSE, data |-> "none", error |-> r.msg, cleared |-> FALSE]

\* ------------------------------------------------------------------ state
VARIABLES
  nowMs,       \* Date.now()
  lsToken,     \* localStorage 'token': <<>> or <<token>>
  lsUser,      \* localStorage 'user': <<>> or <<string>>
  user,        \* AuthProvider user state: <<>> (null) or <<User>>
  timer,       \* tokenCheckInterval: "none" (ref null), "running",
               \* "stopped" (cleared on unmount, ref still set)
  mounted,     \* AuthProvider is mounted
  pcInit,      \* initializeAuth: [st: "start" / "await" (profile fetch) /
               \* "done", acct of the bearer token sent]
  pcLogin,     \* login: "idle" / "await"
  pcRegister,  \* register: "idle" / "await"
  pcRefresh,   \* refreshProfile: [st, acct of the bearer token sent]
  pcLogout,    \* logout: [st, afterLogout, live]
  pcApi,       \* a page's direct apiService call: "idle" / "await"
  boot,        \* history: storage and clock when the provider was constructed,
               \* kept until initializeAuth is over
  last,        \* history: the step that ran last and what it returned
  torn,        \* history: a logout has completed or the provider was
               \* unmounted, and no login / register has succeeded since
  probe,       \* inputs and results of the token-validator checks
  req,         \* inputs and result of the API-client checks
  tp           \* TaskProvider: its tasks state, the isAuthenticated value
               \* its effect last ran for, its requests in flight

vars == <<nowMs, lsToken, lsUser, user, timer, mounted,
          pcInit, pcLogin, pcRegister, pcRefresh, pcLogout, pcApi, boot, last,
          torn, probe, req, tp>>

Idle == [st |-> "idle", acct |-> 0, pastExp |-> FALSE]

LogoutIdle == [st |-> "idle", afterLogout |-> FALSE, live |-> FALSE]

NoProbe == [tok |-> Tok(0, "bad", "text", 0, 0), now |-> 0, done |-> FALSE,
            auth |-> FALSE, api |-> FALSE, quick |-> FALSE]

NoBoot == [tok |-> <<>>, usr |-> <<>>, now |-> 0]

NoReq == [done |-> FALSE]

\* TaskProvider before its first effect: useState([]), nothing in flight
NoTp == [tasks |-> <<>>, seen |-> "none", fetch |-> 0, create |-> "idle",
         update |-> 0, delete |-> 0]

\* the record of a step that completes a call:
\*   op, branch   the call and the way it ended
\*   afterLogout  the step before the call began completed a logout
\*   pastExp      the stored token's exp was in the past when the call began
\*   live         a token was stored and isTokenExpired(token) was false when
\*                the call began
\*   tick         for a run of the interval callback: what it called
\*                ("logout", "refresh", "none"); "" for any other step
\*   sent         the call sent its request
\*   ok, err      what the call returned
\*   tok, usr     the token and the user record the backend answered with
\*   boot         for initializeAuth: storage and clock at construction
Step(op, branch, sent, ok, err, tok, usr) ==
  [op |-> op, branch |-> branch, afterLogout |-> (last.op = "logout"),
   pastExp |-> FALSE, live |-> FALSE, tick |-> "", sent |-> sent, ok |-> ok,
   err |-> err, tok |-> tok, usr |-> usr, boot |-> NoBoot]

\* a step that completes no call
Other ==
  [op |-> "other", branch |-> "", afterLogout |-> FALSE, pastExp |-> FALSE,
   live |-> FALSE, tick |-> "", sent |-> FALSE, ok |-> FALSE, err |-> Undef,
   tok |-> <<>>, usr |-> <<>>, boot |-> NoBoot]

\* the useState initializer of user
InitialUser(tokEntry, userEntry, now) ==
  IF userEntry # <<>> /\ tokEntry # <<>>
  THEN IF ~userEntry[1].json THEN <<>>
       ELSE IF QuickCheckValid(tokEntry[1], now)
            THEN <<JSONParseUser(userEntry[1])>>
            ELSE <<>>
  ELSE <<>>

Construct(tokEntry, userEntry, now) ==
  /\ user = InitialUser(tokEntry, userEntry, now)
  /\ timer = "none"
  /\ mounted = TRUE
  /\ pcInit = [st |-> "start", acct |-> 0]
  /\ pcLogin = "idle"
  /\ pcRegister = "idle"
  /\ pcRefresh = Idle
  /\ pcLogout = LogoutIdle
  /\ pcApi = "idle"
  /\ boot = [tok |-> tokEntry, usr |-> userEntry, now |-> now]

Init ==
  /\ nowMs = 3 * TickMs
  /\ lsToken \in {<<>>} \cup { <<t>> : t \in InitTokens }
  /\ lsUser \in {<<>>} \cup { <<s>> : s \in InitUserEntries }
  /\ Construct(lsToken, lsUser, nowMs)
  /\ last = Other
  /\ torn = FALSE
  /\ probe = NoProbe
  /\ req = NoReq
  /\ tp = NoTp


\* ------------------------------------------------- handlers as functions
\* The part of the state the handlers read and write, as one record;
\* authCleared: ApiService.clearAuthData ran while the handler did.
Cur ==
  [lsToken |-> lsToken, lsUser |-> lsUser, user |-> user, timer |-> timer,
   authCleared |-> FALSE]

\* AuthProvider.clearStoredData
ClearStoredData(s) == [s EXCEPT !.lsToken = <<>>, !.lsUser = <<>>]

\* ApiService.clearAuthData: both entries removed; whether the page is sent
\* to '/' depends on where it is (see Commit)
ClearAuthData(s) ==
  [s EXCEPT !.lsToken = <<>>, !.lsUser = <<>>, !.authCleared = TRUE]

\* AuthProvider.storeUser
StoreUser(s, u) == [s EXCEPT !.lsUser = <<JSONStringify(u)>>]

\* AuthProvider.getStoredUser: the parsed entry (<<>> for null); a corrupt
\* entry is removed
GetStoredUser(s) ==
  IF s.lsUser = <<>> THEN [s |-> s, u |-> <<>>]
  ELSE IF s.lsUser[1].json THEN [s |-> s, u |-> <<JSONParseUser(s.lsUser[1])>>]
  ELSE [s |-> [s EXCEPT !.lsUser = <<>>], u |-> <<>>]

\* AuthProvider.setupTokenValidation: the old interval is cleared and a new
\* one is set
SetupTokenValidation(s) == [s EXCEPT !.timer = "running"]

\* the guard at the head of ApiService.makeRequest, for a non-auth url
ApiPreCheckFails(s, now) ==
  s.lsToken # <<>> /\ ApiIsTokenExpired(s.lsToken[1], now)

\* LoginEnd that keeps the in-memory user when one is already present
LoginEndKeepFirstUser(s, r, tok, d) ==
  LET res == MakeRequestResult(TRUE, r) IN
  IF res.success /\ res.data = "ok"
  THEN [s |-> [SetupTokenValidation(StoreUser(s, ToUserData(d)))
                 EXCEPT !.lsToken = <<tok>>,
                        !.user = IF s.user = <<>> THEN <<ToUserData(d)>>
                                 ELSE s.user],
        ret |-> [success |-> TRUE, error |-> Undef]]
  ELSE [s |-> s, ret |-> [success |-> FALSE, error |-> "Login failed"]]

\* LoginEnd without the storeUser(userData) call
LoginEndNoStoreUser(s, r, tok, d) ==
  LET res == MakeRequestResult(TRUE, r) IN
  IF res.success /\ res.data = "ok"
  THEN [s |-> [SetupTokenValidation(s)
                 EXCEPT !.lsToken = <<tok>>, !.user = <<ToUserData(d)>>],
        ret |-> [success |-> TRUE, error |-> Undef]]
  ELSE [s |-> s, ret |-> [success |-> FALSE, error |-> "Login failed"]]

\* LoginEnd tearing the session down when the login fails
LoginEndTeardownOnFailure(s, r, tok, d) ==
  LET res == MakeRequestResult(TRUE, r) IN
  IF res.success /\ res.data = "ok"
  THEN [s |-> [SetupTokenValidation(StoreUser(s, ToUserData(d)))
                 EXCEPT !.lsToken = <<tok>>, !.user = <<ToUserData(d)>>],
        ret |-> [success |-> TRUE, error |-> Undef]]
  ELSE [s |-> [ClearStoredData(s) EXCEPT !.user = <<>>],
        ret |-> [success |-> FALSE, error |-> "Login failed"]]

\* --- login: the code after `await apiService.login(...)`
NetworkErrorMsg == "Network error. Please check your connection."

GenericLoginMsg ==
  "Invalid email or password. Please check your credentials and try again."

\* errorMessage.includes('Invalid credentials') || includes('incorrect
\* password') || includes('user not found')
IsCredentialMsg(m) == m \in {"Invalid credentials"}

LoginEnd(s, r, tok, d) ==
  LET res == MakeRequestResult(TRUE, r) IN
  IF res.success /\ res.data = "ok"
  THEN [s |-> [SetupTokenValidation(StoreUser(s, ToUserData(d)))
                 EXCEPT !.lsToken = <<tok>>, !.user = <<ToUserData(d)>>],
        ret |-> [success |-> TRUE, error |-> Undef]]
  ELSE IF res.success /\ res.data = "okShape"
  THEN \* response.data.user._id throws; caught
       [s |-> s,
        ret |-> [success |-> FALSE, error |-> NetworkErrorMsg]]
  ELSE LET errorMessage == IF res.error = Undef THEN "Login failed"
                           ELSE res.error IN
       [s |-> s,
        ret |-> [success |-> FALSE,
                 error |-> IF IsCredentialMsg(errorMessage)
                           THEN GenericLoginMsg ELSE errorMessage]]

\* RegisterEnd that clears the stored session when the registration fails
RegisterEndClearOnFailure(s, r, tok, d) ==
  LET res == MakeRequestResult(TRUE, r) IN
  IF res.success /\ res.data = "ok"
  THEN [s |-> [SetupTokenValidation(StoreUser(s, ToUserData(d)))
                 EXCEPT !.lsToken = <<tok>>, !.user = <<ToUserData(d)>>],
        ret |-> [success |-> TRUE, error |-> Undef]]
  ELSE [s |-> ClearStoredData(s),
        ret |-> [success |-> FALSE, error |-> "Registration failed"]]

\* RegisterEnd without the setupTokenValidation() call
RegisterEndNoTimer(s, r, tok, d) ==
  LET res == MakeRequestResult(TRUE, r) IN
  IF res.success /\ res.data = "ok"
  THEN [s |-> [StoreUser(s, ToUserData(d))
                 EXCEPT !.lsToken = <<tok>>, !.user = <<ToUserData(d)>>],
        ret |-> [success |-> TRUE, error |-> Undef]]
  ELSE [s |-> s, ret |-> [success |-> FALSE, error |-> "Registration failed"]]

\* --- register: the code after `await apiService.register(...)`
RegisterEnd(s, r, tok, d) ==
  LET res == MakeRequestResult(TRUE, r) IN
  IF res.success /\ res.data = "ok"
  THEN [s |-> [SetupTokenValidation(StoreUser(s, ToUserData(d)))
                 EXCEPT !.lsToken = <<tok>>, !.user = <<ToUserData(d)>>],
        ret |-> [success |-> TRUE, error |-> Undef]]
  ELSE IF res.success /\ res.data = "okShape"
  THEN [s |-> s,
        ret |-> [success |-> FALSE, error |-> NetworkErrorMsg]]
  ELSE [s |-> s,
        ret |-> [success |-> FALSE,
                 error |-> IF res.error = Undef THEN "Registration failed"
                           ELSE res.error]]

\* RefreshBegin whose expired branch only calls setUser(null)
RefreshBeginKeepStorage(s, now) ==
  IF s.lsToken = <<>>
  THEN [s |-> [ClearStoredData(s) EXCEPT !.user = <<>>],
        sent |-> FALSE, branch |-> "noToken"]
  ELSE IF IsTokenExpired(s.lsToken[1], now)
  THEN [s |-> [s EXCEPT !.user = <<>>], sent |-> FALSE, branch |-> "expired"]
  ELSE [s |-> s, sent |-> TRUE, branch |-> "await"]

\* --- refreshProfile, up to `await apiService.getProfile()`
\* sent: the profile request went out; otherwise the call is over
RefreshBegin(s, now) ==
  IF s.lsToken = <<>>
  THEN [s |-> [ClearStoredData(s) EXCEPT !.user = <<>>],
        sent |-> FALSE, branch |-> "noToken"]
  ELSE IF IsTokenExpired(s.lsToken[1], now)
  THEN [s |-> [ClearStoredData(s) EXCEPT !.user = <<>>],
        sent |-> FALSE, branch |-> "expired"]
  ELSE IF ApiPreCheckFails(s, now)
  THEN [s |-> [ClearAuthData(s) EXCEPT !.user = <<>>],
        sent |-> FALSE, branch |-> "apiExpired"]
  ELSE [s |-> s, sent |-> TRUE, branch |-> "await"]

\* RefreshEnd that drops the answer when the token is gone by then
RefreshEndDropStale(s, r, d) ==
  LET res == MakeRequestResult(FALSE, r)
      s0 == IF res.cleared THEN ClearAuthData(s) ELSE s
  IN
  IF s.lsToken = <<>> THEN s0
  ELSE IF res.success /\ res.data = "ok"
  THEN [StoreUser(s0, ToUserData(d)) EXCEPT !.user = <<ToUserData(d)>>]
  ELSE [ClearStoredData(s0) EXCEPT !.user = <<>>]

\* RefreshEnd whose failure branch only calls clearStoredData()
RefreshEndKeepUser(s, r, d) ==
  LET res == MakeRequestResult(FALSE, r)
      s0 == IF res.cleared THEN ClearAuthData(s) ELSE s
  IN
  IF res.success /\ res.data = "ok"
  THEN [StoreUser(s0, ToUserData(d)) EXCEPT !.user = <<ToUserData(d)>>]
  ELSE ClearStoredData(s0)

\* RefreshEnd whose success branch leaves out storeUser(userData)
RefreshEndNoStoreUser(s, r, d) ==
  LET res == MakeRequestResult(FALSE, r)
      s0 == IF res.cleared THEN ClearAuthData(s) ELSE s
  IN
  IF res.success /\ res.data = "ok"
  THEN [s0 EXCEPT !.user = <<ToUserData(d)>>]
  ELSE [ClearStoredData(s0) EXCEPT !.user = <<>>]

\* RefreshEnd whose failure branch only calls setUser(null)
RefreshEndKeepStorage(s, r, d) ==
  LET res == MakeRequestResult(FALSE, r)
      s0 == IF res.cleared THEN ClearAuthData(s) ELSE s
  IN
  IF res.success /\ res.data = "ok"
  THEN [StoreUser(s0, ToUserData(d)) EXCEPT !.user = <<ToUserData(d)>>]
  ELSE [s0 EXCEPT !.user = <<>>]

\* --- refreshProfile, after the await
RefreshEnd(s, r, d) ==
  LET res == MakeRequestResult(FALSE, r)
      s0 == IF res.cleared THEN ClearAuthData(s) ELSE s
  IN
  IF res.success /\ res.data = "ok"
  THEN [StoreUser(s0, ToUserData(d)) EXCEPT !.user = <<ToUserData(d)>>]
  ELSE [ClearStoredData(s0) EXCEPT !.user = <<>>]

\* --- logout: the finally block
LogoutFinally(s) ==
  [ClearStoredData(s) EXCEPT !.user = <<>>, !.timer = "none"]

\* LogoutBegin that notifies the backend whenever a token is stored
LogoutBeginNotifyIfStored(s, now) ==
  IF s.lsToken # <<>> THEN [s |-> s, sent |-> TRUE]
  ELSE [s |-> LogoutFinally(s), sent |-> FALSE]

\* LogoutBegin that notifies the backend whatever the stored token is
LogoutBeginAlwaysNotify(s, now) == [s |-> s, sent |-> TRUE]

\* --- logout, up to `await apiService.logout()`
LogoutBegin(s, now) ==
  IF s.lsToken # <<>> /\ ~IsTokenExpired(s.lsToken[1], now)
  THEN IF ApiPreCheckFails(s, now)
       THEN [s |-> LogoutFinally(ClearAuthData(s)), sent |-> FALSE]
       ELSE [s |-> s, sent |-> TRUE]
  ELSE [s |-> LogoutFinally(s), sent |-> FALSE]

\* LogoutEnd with the cleanup in the try block instead of finally
LogoutEndNoFinally(s, r, rejected) ==
  LET res == MakeRequestResult(FALSE, r) IN
  IF rejected THEN s
  ELSE IF res.cleared THEN LogoutFinally(ClearAuthData(s))
  ELSE LogoutFinally(s)

\* --- logout, after the await; rejected: the awaited promise rejected, which
\* the catch block absorbs
LogoutEnd(s, r, rejected) ==
  LET res == MakeRequestResult(FALSE, r) IN
  IF ~rejected /\ res.cleared THEN LogoutFinally(ClearAuthData(s))
  ELSE LogoutFinally(s)


\* ValidateBegin that loads the stored user before looking at the expiry
ValidateBeginUserFirst(s, now, closureUser) ==
  LET g == GetStoredUser(s) IN
  IF s.lsToken = <<>>
  THEN [s |-> [(IF g.u # <<>> THEN ClearStoredData(g.s) ELSE g.s)
                 EXCEPT !.user = <<>>],
        sent |-> FALSE, branch |-> "noToken"]
  ELSE IF g.u # <<>> /\ HasIdNameEmail(g.u[1])
  THEN [s |-> [g.s EXCEPT !.user = g.u], sent |-> FALSE,
        branch |-> "fromStorage"]
  ELSE IF IsTokenExpired(s.lsToken[1], now)
  THEN [s |-> [ClearStoredData(s) EXCEPT !.user = <<>>], sent |-> FALSE,
        branch |-> "expired"]
  ELSE [s |-> g.s, sent |-> TRUE, branch |-> "await"]

\* --- validateAndRefreshAuth, up to `await apiService.getProfile()`;
\* closureUser is the `user` of the render whose effect is running
ValidateBegin(s, now, closureUser) ==
  IF s.lsToken = <<>>
  THEN LET g == GetStoredUser(s) IN
       [s |-> [(IF g.u # <<>> THEN ClearStoredData(g.s) ELSE g.s)
                 EXCEPT !.user = <<>>],
        sent |-> FALSE, branch |-> "noToken"]
  ELSE IF IsTokenExpired(s.lsToken[1], now)
  THEN [s |-> [ClearStoredData(s) EXCEPT !.user = <<>>], sent |-> FALSE,
        branch |-> "expired"]
  ELSE IF closureUser # <<>> /\ HasIdNameEmail(closureUser[1])
  THEN [s |-> s, sent |-> FALSE, branch |-> "alreadyValidated"]
  ELSE LET g == GetStoredUser(s) IN
       IF g.u # <<>> /\ HasIdNameEmail(g.u[1])
       THEN [s |-> [g.s EXCEPT !.user = g.u], sent |-> FALSE,
             branch |-> "fromStorage"]
       ELSE IF ApiPreCheckFails(g.s, now)
       THEN [s |-> [ClearAuthData(g.s) EXCEPT !.user = <<>>],
             sent |-> FALSE, branch |-> "apiExpired"]
       ELSE [s |-> g.s, sent |-> TRUE, branch |-> "await"]

\* ValidateEnd whose success branch leaves out storeUser(userData)
ValidateEndNoStoreUser(s, r, d) ==
  LET res == MakeRequestResult(FALSE, r)
      s0 == IF res.cleared THEN ClearAuthData(s) ELSE s
  IN
  IF res.success /\ res.data = "ok"
  THEN [s0 EXCEPT !.user = <<ToUserData(d)>>]
  ELSE [ClearStoredData(s0) EXCEPT !.user = <<>>]

\* --- validateAndRefreshAuth, after the await
ValidateEnd(s, r, d) ==
  LET res == MakeRequestResult(FALSE, r)
      s0 == IF res.cleared THEN ClearAuthData(s) ELSE s
  IN
  IF res.success /\ res.data = "ok"
  THEN [StoreUser(s0, ToUserData(d)) EXCEPT !.user = <<ToUserData(d)>>]
  ELSE [ClearStoredData(s0) EXCEPT !.user = <<>>]

\* --- initializeAuth: the finally block
InitFinally(s) == SetupTokenValidation(s)

\* --- initializeAuth, up to the first network await
InitBegin(s, now) ==
  IF s.user # <<>> /\ s.lsToken # <<>> /\ ~IsTokenExpired(s.lsToken[1], now)
  THEN [s |-> SetupTokenValidation(s), sent |-> FALSE, branch |-> "hydrated"]
  ELSE LET s1 == IF s.user # <<>>
                 THEN [ClearStoredData(s) EXCEPT !.user = <<>>] ELSE s
           v == ValidateBegin(s1, now, s.user)
       IN IF v.sent THEN v
          ELSE [s |-> InitFinally(v.s), sent |-> FALSE, branch |-> v.branch]

\* --- initializeAuth, after the profile fetch
InitEnd(s, r, d) == InitFinally(ValidateEnd(s, r, d))

\* IntervalCallback that refreshes whenever the token is not expired
IntervalCallbackNoHorizon(s, now) ==
  IF s.lsToken = <<>>
  THEN [s |-> s, sent |-> FALSE, call |-> "none", branch |-> "noToken"]
  ELSE IF IsTokenExpired(s.lsToken[1], now)
  THEN LET l == LogoutBegin(s, now) IN
       [s |-> l.s, sent |-> l.sent, call |-> "logout", branch |-> "expired"]
  ELSE LET f == RefreshBegin(s, now) IN
       [s |-> f.s, sent |-> f.sent, call |-> "refresh", branch |-> f.branch]

\* --- the setInterval callback of setupTokenValidation
\* call: which of logout() / refreshProfile() it awaited
IntervalCallback(s, now) ==
  IF s.lsToken = <<>>
  THEN [s |-> s, sent |-> FALSE, call |-> "none", branch |-> "noToken"]
  ELSE IF IsTokenExpired(s.lsToken[1], now)
  THEN LET l == LogoutBegin(s, now) IN
       [s |-> l.s, sent |-> l.sent, call |-> "logout", branch |-> "expired"]
  ELSE LET d == DecodeExp(s.lsToken[1]) IN
       IF ~d.thrown /\ d.numeric
          /\ d.exp * MsPerSecond - now < RefreshHorizon * MsPerSecond
       THEN LET f == RefreshBegin(s, now) IN
            [s |-> f.s, sent |-> f.sent, call |-> "refresh",
             branch |-> f.branch]
       ELSE [s |-> s, sent |-> FALSE, call |-> "none", branch |-> "fresh"]

\* --- a page calling apiService directly (getProfile, updateProfile, the
\* task methods): makeRequest up to the fetch
ApiBegin(s, now) ==
  IF ApiPreCheckFails(s, now)
  THEN [s |-> ClearAuthData(s), sent |-> FALSE]
  ELSE [s |-> s, sent |-> TRUE]

\* --- makeRequest after the fetch
ApiEnd(s, r) ==
  IF MakeRequestResult(FALSE, r).cleared THEN ClearAuthData(s) ELSE s

\* ------------------------------------------------------ backend answers
AnyUser == CHOOSE u \in ServerUsers : TRUE
AnyToken == CHOOSE t \in IssuedTokens : TRUE

\* answers to GET /auth/profile sent with the token of account acct
ProfileAnswers(acct) ==
  { [r |-> r, d |-> d] : r \in {x \in Responses : x.kind = "ok"},
                         d \in {u \in ServerUsers : AcctOf(u) = acct} }
  \cup { [r |-> r, d |-> AnyUser] :
           r \in {x \in PlainResponses : x.kind # "ok"} }

\* answers to POST /auth/logout; rejected: the awaited promise rejects
LogoutAnswers ==
  { [r |-> r, rejected |-> FALSE] : r \in PlainResponses }
  \cup { [r |-> [kind |-> "thrown", msg |-> "Failed to fetch"],
          rejected |-> TRUE] }

\* answers to POST /auth/login and /auth/register: a token and the profile
\* of the account it was issued to
AuthAnswers ==
  { a \in [r : {x \in Responses : x.kind = "ok"}, tok : IssuedTokens,
           d : ServerUsers] : AcctOf(a.d) = a.tok.acct /\ a.d.name # "A2" }
  \cup { [r |-> r, tok |-> AnyToken, d |-> AnyUser] :
           r \in {x \in Responses : x.kind # "ok"} }



\* ---------------------------------------------------------------- actions
\* requests awaiting their answer
InFlight ==
  (IF pcInit.st = "await" THEN 1 ELSE 0) + (IF pcLogin = "await" THEN 1 ELSE 0)
  + (IF pcRegister = "await" THEN 1 ELSE 0)
  + (IF pcRefresh.st = "await" THEN 1 ELSE 0)
  + (IF pcLogout.st = "await" THEN 1 ELSE 0)
  + (IF pcApi = "await" THEN 1 ELSE 0)

CanSend == InFlight < MaxInFlight

\* a token whose payload decodes and carries an exp claim before `now`
ExpInPast(t, now) ==
  t.segs = 3 /\ t.enc = "std" /\ t.body = "num" /\ t.exp * MsPerSecond < now

StoredExpInPast == lsToken # <<>> /\ ExpInPast(lsToken[1], nowMs)

\* token && !isTokenExpired(token)
StoredLive == lsToken # <<>> /\ ~IsTokenExpired(lsToken[1], nowMs)

\* a user event can reach the provider
CanCall == mounted /\ pcInit.st # "start"

Pcs == [init |-> pcInit, login |-> pcLogin, register |-> pcRegister,
        refresh |-> pcRefresh, logout |-> pcLogout, api |-> pcApi]

\* The end of a handler run: its writes take effect.  When clearAuthData ran
\* and window.location.pathname was not '/', it assigned
\* window.location.href and the page is loaded anew: the requests in flight
\* are dropped and the provider is constructed again from storage.
Commit(s, pcs, lst) ==
  /\ lsToken' = s.lsToken
  /\ lsUser' = s.lsUser
  /\ last' = lst
  /\ \E reload \in (IF s.authCleared THEN BOOLEAN ELSE {FALSE}) :
     IF reload
     THEN /\ user' = InitialUser(s.lsToken, s.lsUser, nowMs)
          /\ timer' = "none"
          /\ mounted' = TRUE
          /\ pcInit' = [st |-> "start", acct |-> 0]
          /\ pcLogin' = "idle"
          /\ pcRegister' = "idle"
          /\ pcRefresh' = Idle
          /\ pcLogout' = LogoutIdle
          /\ pcApi' = "idle"
          /\ boot' = [tok |-> s.lsToken, usr |-> s.lsUser, now |-> nowMs]
          /\ torn' = FALSE
     ELSE /\ user' = s.user
          /\ timer' = s.timer
          /\ pcInit' = pcs.init
          /\ pcLogin' = pcs.login
          /\ pcRegister' = pcs.register
          /\ pcRefresh' = pcs.refresh
          /\ pcLogout' = pcs.logout
          /\ pcApi' = pcs.api
          /\ boot' = IF pcs.init.st = "done" THEN NoBoot ELSE boot
          /\ torn' = IF lst.op = "logout" THEN TRUE
                     ELSE IF lst.op \in {"login", "register"} /\ lst.ok
                          THEN FALSE
                     ELSE torn
          /\ UNCHANGED mounted
  /\ UNCHANGED <<nowMs, probe, req, tp>>

\* the mount effect: initializeAuth() up to its first network await
InitializeAuth ==
  /\ pcInit.st = "start"
  /\ LET b == InitBegin(Cur, nowMs) IN
     Commit(b.s,
            [Pcs EXCEPT !.init = IF b.sent
                                 THEN [st |-> "await", acct |-> lsToken[1].acct]
                                 ELSE [st |-> "done", acct |-> 0]],
            IF b.sent THEN Other
            ELSE [Step("initializeAuth", b.branch, FALSE, b.s.user # <<>>,
                       Undef, <<>>, <<>>) EXCEPT !.boot = boot])

\* the profile fetch of initializeAuth comes back
InitializeAuthRespond ==
  /\ pcInit.st = "await"
  /\ \E a \in ProfileAnswers(pcInit.acct) :
       LET s == InitEnd(Cur, a.r, a.d) IN
       Commit(s, [Pcs EXCEPT !.init = [st |-> "done", acct |-> 0]],
              [Step("initializeAuth", a.r.kind, TRUE, s.user # <<>>, Undef,
                    <<>>, IF a.r.kind = "ok" THEN <<a.d>> ELSE <<>>)
                 EXCEPT !.boot = boot])

\* login(email, password) up to `await apiService.login`
Login ==
  /\ CanCall /\ CanSend
  /\ pcLogin = "idle"
  /\ Commit(Cur, [Pcs EXCEPT !.login = "await"], Other)

LoginRespond ==
  /\ pcLogin = "await"
  /\ \E a \in AuthAnswers :
       LET e == LoginEnd(Cur, a.r, a.tok, a.d) IN
       Commit(e.s, [Pcs EXCEPT !.login = "idle"],
              Step("login", a.r.kind, TRUE, e.ret.success, e.ret.error,
                   IF a.r.kind = "ok" THEN <<a.tok>> ELSE <<>>,
                   IF a.r.kind = "ok" THEN <<a.d>> ELSE <<>>))

\* register(name, email, password) up to `await apiService.register`
Register ==
  /\ CanCall /\ CanSend
  /\ pcRegister = "idle"
  /\ Commit(Cur, [Pcs EXCEPT !.register = "await"], Other)

RegisterRespond ==
  /\ pcRegister = "await"
  /\ \E a \in AuthAnswers :
       LET e == RegisterEnd(Cur, a.r, a.tok, a.d) IN
       Commit(e.s, [Pcs EXCEPT !.register = "idle"],
              Step("register", a.r.kind, TRUE, e.ret.success, e.ret.error,
                   IF a.r.kind = "ok" THEN <<a.tok>> ELSE <<>>,
                   IF a.r.kind = "ok" THEN <<a.d>> ELSE <<>>))

\* refreshProfile() called by a page, up to `await apiService.getProfile`
RefreshProfile ==
  /\ CanCall
  /\ pcRefresh.st = "idle"
  /\ LET b == RefreshBegin(Cur, nowMs) IN
     /\ b.sent => CanSend
     /\ Commit(b.s,
               [Pcs EXCEPT !.refresh =
                  IF b.sent THEN [st |-> "await", acct |-> lsToken[1].acct,
                                  pastExp |-> StoredExpInPast]
                  ELSE Idle],
               IF b.sent THEN Other
               ELSE [Step("refreshProfile", b.branch, FALSE, FALSE, Undef,
                          <<>>, <<>>) EXCEPT !.pastExp = StoredExpInPast])

RefreshProfileRespond ==
  /\ pcRefresh.st = "await"
  /\ \E a \in ProfileAnswers(pcRefresh.acct) :
       Commit(RefreshEnd(Cur, a.r, a.d), [Pcs EXCEPT !.refresh = Idle],
              [Step("refreshProfile", a.r.kind, TRUE, a.r.kind = "ok", Undef,
                    <<>>, IF a.r.kind = "ok" THEN <<a.d>> ELSE <<>>)
                 EXCEPT !.pastExp = pcRefresh.pastExp])

\* logout() called by a page, up to `await apiService.logout`
Logout ==
  /\ CanCall
  /\ pcLogout.st = "idle"
  /\ LET b == LogoutBegin(Cur, nowMs) IN
     /\ b.sent => CanSend
     /\ Commit(b.s,
               [Pcs EXCEPT !.logout =
                  IF b.sent
                  THEN [st |-> "await", afterLogout |-> (last.op = "logout"),
                        live |-> StoredLive]
                  ELSE pcLogout],
               IF b.sent THEN Other
               ELSE [Step("logout", "skipped", FALSE, TRUE, Undef, <<>>, <<>>)
                       EXCEPT !.live = StoredLive])

LogoutRespond ==
  /\ pcLogout.st = "await"
  /\ \E a \in LogoutAnswers :
       Commit(LogoutEnd(Cur, a.r, a.rejected),
              [Pcs EXCEPT !.logout = LogoutIdle],
              [Step("logout", IF a.rejected THEN "rejected" ELSE a.r.kind,
                    TRUE, TRUE, Undef, <<>>, <<>>)
                 EXCEPT !.afterLogout = pcLogout.afterLogout,
                        !.live = pcLogout.live])

\* the interval fires
IntervalCheck ==
  /\ timer = "running"
  /\ LET c == IntervalCallback(Cur, nowMs) IN
     /\ c.call = "refresh" /\ c.sent => pcRefresh.st = "idle" /\ CanSend
     /\ c.call = "logout" /\ c.sent => pcLogout.st = "idle" /\ CanSend
     /\ Commit(c.s,
               [Pcs EXCEPT
                  !.refresh = IF c.call = "refresh" /\ c.sent
                              THEN [st |-> "await", acct |-> lsToken[1].acct,
                                    pastExp |-> StoredExpInPast]
                              ELSE pcRefresh,
                  !.logout = IF c.call = "logout" /\ c.sent
                             THEN [st |-> "await", afterLogout |-> FALSE,
                                   live |-> StoredLive]
                             ELSE pcLogout],
               IF c.sent THEN [Other EXCEPT !.tick = c.call]
               ELSE [Step(IF c.call = "logout" THEN "logout"
                          ELSE IF c.call = "refresh" THEN "refreshProfile"
                          ELSE "interval",
                          c.branch, FALSE, c.call = "logout", Undef, <<>>,
                          <<>>) EXCEPT !.pastExp = StoredExpInPast,
                                       !.live = StoredLive,
                                       !.tick = c.call])

\* a page calls apiService directly: makeRequest up to the fetch
ApiCall ==
  /\ CanCall
  /\ pcApi = "idle"
  /\ LET b == ApiBegin(Cur, nowMs) IN
     /\ b.sent => CanSend
     /\ Commit(b.s, [Pcs EXCEPT !.api = IF b.sent THEN "await" ELSE "idle"],
               IF b.sent THEN Other
               ELSE Step("api", "expired", FALSE, FALSE, SessionExpiredMsg,
                         <<>>, <<>>))

ApiCallRespond ==
  /\ pcApi = "await"
  /\ \E r \in PlainResponses :
       Commit(ApiEnd(Cur, r), [Pcs EXCEPT !.api = "idle"],
              Step("api", r.kind, TRUE, MakeRequestResult(FALSE, r).success,
                   MakeRequestResult(FALSE, r).error, <<>>, <<>>))

\* the cleanup of the mount effect
Unmount ==
  /\ mounted
  /\ pcInit.st # "start"
  /\ mounted' = FALSE
  /\ timer' = IF timer = "running" THEN "stopped" ELSE timer
  /\ last' = Other
  /\ torn' = TRUE
  /\ UNCHANGED <<nowMs, lsToken, lsUser, user, pcInit, pcLogin,
                 pcRegister, pcRefresh, pcLogout, pcApi, boot, probe, req,
                 tp>>

\* the clock advances
AdvanceTime ==
  /\ nowMs + TickMs <= (3 + MaxTicks) * TickMs
  /\ nowMs' = nowMs + TickMs
  /\ last' = Other
  /\ UNCHANGED <<lsToken, lsUser, user, timer, mounted, pcInit,
                 pcLogin, pcRegister, pcRefresh, pcLogout, pcApi, boot, torn,
                 probe, req, tp>>

Next ==
  \/ InitializeAuth
  \/ InitializeAuthRespond
  \/ Login
  \/ LoginRespond
  \/ Register
  \/ RegisterRespond
  \/ RefreshProfile
  \/ RefreshProfileRespond
  \/ Logout
  \/ LogoutRespond
  \/ IntervalCheck
  \/ ApiCall
  \/ ApiCallRespond
  \/ Unmount
  \/ AdvanceTime

Spec == Init /\ [][Next]_vars

\* the interval keeps firing while it is scheduled, the mount effect runs,
\* and every request in flight is answered
Fairness ==
  /\ WF_vars(IntervalCheck)
  /\ WF_vars(InitializeAuth)
  /\ WF_vars(InitializeAuthRespond)
  /\ WF_vars(LoginRespond)
  /\ WF_vars(RegisterRespond)
  /\ WF_vars(RefreshProfileRespond)
  /\ WF_vars(LogoutRespond)
  /\ WF_vars(ApiCallRespond)

LiveSpec == Init /\ [][Next]_vars /\ Fairness


\* ------------------------------------------- the token checks on their own
\* every shape of token string, with exp claims around the probed clock
ProbeTokens ==
  { Tok(n, e, "num", x, 0) : n \in 1..MaxSegs, e \in {"std", "url", "bad"},
                             x \in 0..MaxProbe }
  \cup { Tok(n, e, b, 0, 0) : n \in 1..MaxSegs, e \in {"std", "url", "bad"},
                              b \in {"text", "null", "prim", "noexp", "strexp"} }

ProbeInit ==
  /\ probe \in { [NoProbe EXCEPT !.tok = t, !.now = k * TickMs] :
                   t \in ProbeTokens, k \in 0..(2 * MaxProbe) }
  /\ nowMs = 0
  /\ lsToken = <<>>
  /\ lsUser = <<>>
  /\ user = <<>>
  /\ timer = "none"
  /\ mounted = FALSE
  /\ pcInit = [st |-> "done", acct |-> 0]
  /\ pcLogin = "idle"
  /\ pcRegister = "idle"
  /\ pcRefresh = Idle
  /\ pcLogout = LogoutIdle
  /\ pcApi = "idle"
  /\ boot = NoBoot
  /\ last = Other
  /\ torn = FALSE
  /\ req = NoReq
  /\ tp = NoTp

\* both copies of isTokenExpired and the initializer's quick check are run
\* on the probed token at the probed time
ProbeToken ==
  /\ ~probe.done
  /\ probe' = [probe EXCEPT !.done = TRUE,
                            !.auth = IsTokenExpired(probe.tok, probe.now),
                            !.api = ApiIsTokenExpired(probe.tok, probe.now),
                            !.quick = QuickCheckValid(probe.tok, probe.now)]
  /\ UNCHANGED <<nowMs, lsToken, lsUser, user, timer, mounted, pcInit,
                 pcLogin, pcRegister, pcRefresh, pcLogout, pcApi, boot, last,
                 torn, req, tp>>

ProbeNext == ProbeToken

ProbeSpec == ProbeInit /\ [][ProbeNext]_vars

\* a JWT: three base64url segments, the middle one a JSON object with a
\* numeric exp
WellFormed(t) == t.segs = 3 /\ t.enc \in {"std", "url"} /\ t.body = "num"

\* not exactly three segments, or a middle segment that is not JSON
Malformed(t) == t.segs # 3 \/ t.enc = "bad" \/ t.body = "text"


\* ------------------------------------------- the API client on its own
\* the public methods of ApiService
Methods ==
  { "login", "register", "logout", "getProfile", "updateProfile", "getTasks",
    "createTask", "updateTask", "deleteTask", "getTaskById", "getTaskStats",
    "healthCheck" }

\* url.includes('/auth/login') || url.includes('/auth/register')
IsAuthMethod(m) == m \in {"login", "register"}

\* what fetch() and response.json() can do:
\*   net      "failed": fetch() rejects; "ok": a response arrives
\*   status   the HTTP status
\*   body     "notJson" (response.json() rejects), "null" (JSON null),
\*            "object" (a JSON object)
\*   message  the message field of the object: absent, empty or a text
FetchOutcomes ==
  { [net |-> "failed", status |-> 0, body |-> "object", message |-> Undef] }
  \cup { [net |-> "ok", status |-> st, body |-> b, message |-> Undef] :
           st \in {200, 401, 500}, b \in {"notJson", "null"} }
  \cup { [net |-> "ok", status |-> st, body |-> "object", message |-> m] :
           st \in {200, 401, 500}, m \in {Undef, "", "User not found"} }

\* `HTTP error! status: ${response.status}`
StatusText(status) ==
  IF status = 401 THEN "HTTP error! status: 401"
  ELSE "HTTP error! status: 500"

\* a || b on strings: undefined and '' are falsy
OrElse(a, b) == IF a \in {Undef, ""} THEN b ELSE a

\* the try block of makeRequest: the answer it returns from, or the error it
\* throws into its catch block (kinds "thrown" and "http")
ResponseOf(o, isAuthRequest) ==
  IF o.net = "failed"
  THEN [kind |-> "thrown", msg |-> "Failed to fetch"]
  ELSE IF o.body = "notJson"
  THEN [kind |-> "thrown", msg |-> "Unexpected token < in JSON at position 0"]
  ELSE IF o.status = 200
  THEN [kind |-> IF o.body = "null" THEN "okFalsy" ELSE "ok", msg |-> ""]
  ELSE IF o.status = 401 /\ ~isAuthRequest
  THEN [kind |-> "s401", msg |-> ""]
  ELSE IF o.body = "null"
  THEN [kind |-> "thrown",
        msg |-> "Cannot read properties of null (reading 'message')"]
  ELSE [kind |-> "http", msg |-> OrElse(o.message, StatusText(o.status))]

\* ClientMakeRequest without the catch block
ClientMakeRequestNoCatch(isAuthRequest, tokEntry, now, o) ==
  IF tokEntry # <<>> /\ ~isAuthRequest /\ ApiIsTokenExpired(tokEntry[1], now)
  THEN [threw |-> FALSE, success |-> FALSE, data |-> "none",
        error |-> SessionExpiredMsg]
  ELSE LET r == ResponseOf(o, isAuthRequest)
           res == MakeRequestResult(isAuthRequest, r)
       IN IF r.kind \in {"thrown", "http"}
          THEN [threw |-> TRUE, success |-> FALSE, data |-> "none",
                error |-> Undef]
          ELSE [threw |-> FALSE, success |-> res.success, data |-> res.data,
                error |-> res.error]

\* ApiService.makeRequest as its caller sees it; threw: the promise rejects
ClientMakeRequest(isAuthRequest, tokEntry, now, o) ==
  IF tokEntry # <<>> /\ ~isAuthRequest /\ ApiIsTokenExpired(tokEntry[1], now)
  THEN [threw |-> FALSE, success |-> FALSE, data |-> "none",
        error |-> SessionExpiredMsg]
  ELSE LET res == MakeRequestResult(isAuthRequest,
                                    ResponseOf(o, isAuthRequest))
       IN [threw |-> FALSE, success |-> res.success, data |-> res.data,
           error |-> res.error]

\* response.error || 'Failed to ...' of getTasks, createTask, updateTask
TaskFallback(m) ==
  IF m = "getTasks" THEN "Failed to fetch tasks"
  ELSE IF m = "createTask" THEN "Failed to create task"
  ELSE "Failed to update task"

\* a public method: makeRequest, re-wrapped by the three task methods
ClientResult(m, tokEntry, now, o) ==
  LET res == ClientMakeRequest(IsAuthMethod(m), tokEntry, now, o) IN
  IF m \in {"getTasks", "createTask", "updateTask"} /\ ~res.threw
  THEN IF res.success /\ res.data = "ok"
       THEN [threw |-> FALSE, success |-> TRUE, error |-> Undef]
       ELSE [threw |-> FALSE, success |-> FALSE,
             error |-> OrElse(res.error, TaskFallback(m))]
  ELSE [threw |-> res.threw, success |-> res.success, error |-> res.error]

\* the 'token' entry when a method is called: none, a live one, an expired
\* one
ClientTokens ==
  { <<>>, <<Tok(3, "std", "num", RefreshHorizon + 2, 1)>>,
    <<Tok(3, "std", "num", 0, 1)>> }

NoRet == [threw |-> FALSE, success |-> FALSE, error |-> Undef]

ClientInit ==
  /\ req \in { [done |-> FALSE, method |-> m, tok |-> t, o |-> o,
                 ret |-> NoRet] :
                 m \in Methods, t \in ClientTokens, o \in FetchOutcomes }
  /\ nowMs = 3 * TickMs
  /\ lsToken = req.tok
  /\ lsUser = <<>>
  /\ user = <<>>
  /\ timer = "none"
  /\ mounted = FALSE
  /\ pcInit = [st |-> "done", acct |-> 0]
  /\ pcLogin = "idle"
  /\ pcRegister = "idle"
  /\ pcRefresh = Idle
  /\ pcLogout = LogoutIdle
  /\ pcApi = "idle"
  /\ boot = NoBoot
  /\ last = Other
  /\ torn = FALSE
  /\ probe = NoProbe
  /\ tp = NoTp

\* the method is called and its promise settles
ClientCall ==
  /\ ~req.done
  /\ req' = [req EXCEPT !.done = TRUE,
                        !.ret = ClientResult(req.method, lsToken, nowMs, req.o)]
  /\ UNCHANGED <<nowMs, lsToken, lsUser, user, timer, mounted, pcInit,
                 pcLogin, pcRegister, pcRefresh, pcLogout, pcApi, boot, last,
                 torn, probe, tp>>

ClientNext == ClientCall

ClientSpec == ClientInit /\ [][ClientNext]_vars

\* an outcome the client has to report as a failure: no response, a body
\* that is not JSON, a status outside 2xx, or a stored token that the
\* pre-check finds expired
FailureOutcome ==
  \/ req.o.net = "failed"
  \/ req.o.body = "notJson"
  \/ req.o.status # 200
  \/ /\ ~IsAuthMethod(req.method)
     /\ req.tok # <<>>
     /\ ApiIsTokenExpired(req.tok[1], nowMs)

\* ------------------------------------------------------------ TaskProvider
\* a task as the list sees it: its _id and a version of its content
TaskIds == 1..MaxTasks

TaskValues == [id : TaskIds, v : {0, 1}]

\* the lists GET /tasks can answer with
ServerTaskLists ==
  { [i \in 1..n |-> [id |-> i, v |-> 0]] : n \in 0..MaxTasks }

\* fetchTasks after the await: setTasks(response.data) on success
FetchTasksEnd(tasks, ok, list) == IF ok THEN list ELSE tasks

\* createTask after the await: setTasks(prev => [...prev, response.data])
CreateTaskEnd(tasks, ok, t) == IF ok THEN Append(tasks, t) ELSE tasks

\* updateTask after the await: the task with that _id is replaced
UpdateTaskEnd(tasks, ok, id, t) ==
  IF ok THEN [i \in 1..Len(tasks) |-> IF tasks[i].id = id THEN t ELSE tasks[i]]
  ELSE tasks

\* deleteTask after the await: the task with that _id is filtered out
DeleteTaskEnd(tasks, ok, id) ==
  IF ok THEN SelectSeq(tasks, LAMBDA x : x.id # id) ELSE tasks

\* isAuthenticated as TaskProvider reads it from useAuth()
IsAuthenticated == user # <<>>

AuthSeen == IF IsAuthenticated THEN "yes" ELSE "no"

TaskInit ==
  /\ tp = NoTp
  /\ user = <<>>
  /\ nowMs = 3 * TickMs
  /\ lsToken = <<>>
  /\ lsUser = <<>>
  /\ timer = "none"
  /\ mounted = TRUE
  /\ pcInit = [st |-> "done", acct |-> 0]
  /\ pcLogin = "idle"
  /\ pcRegister = "idle"
  /\ pcRefresh = Idle
  /\ pcLogout = LogoutIdle
  /\ pcApi = "idle"
  /\ boot = NoBoot
  /\ last = Other
  /\ torn = FALSE
  /\ probe = NoProbe
  /\ req = NoReq

TaskFrame ==
  UNCHANGED <<nowMs, lsToken, lsUser, timer, mounted, pcInit, pcLogin,
              pcRegister, pcRefresh, pcLogout, pcApi, boot, last, torn, probe,
              req>>

\* AuthProvider sets the user (login, register, hydration)
SignIn ==
  /\ user = <<>>
  /\ user' = <<AnyUser>>
  /\ UNCHANGED tp
  /\ TaskFrame

\* AuthProvider clears the user (logout, teardown)
SignOut ==
  /\ user # <<>>
  /\ user' = <<>>
  /\ UNCHANGED tp
  /\ TaskFrame

\* useEffect(..., [isAuthenticated]): fetchTasks() up to its await when
\* authenticated, setTasks([]) otherwise
AuthEffect ==
  /\ tp.seen # AuthSeen
  /\ IF IsAuthenticated
     THEN /\ tp.fetch < MaxInFlight
          /\ tp' = [tp EXCEPT !.seen = "yes", !.fetch = @ + 1]
     ELSE tp' = [tp EXCEPT !.seen = "no", !.tasks = <<>>]
  /\ UNCHANGED user
  /\ TaskFrame

\* a page calls fetchTasks()
FetchTasks ==
  /\ IsAuthenticated
  /\ tp.fetch < MaxInFlight
  /\ tp' = [tp EXCEPT !.fetch = @ + 1]
  /\ UNCHANGED user
  /\ TaskFrame

FetchTasksRespond ==
  /\ tp.fetch > 0
  /\ \E ok \in BOOLEAN, list \in ServerTaskLists :
       tp' = [tp EXCEPT !.fetch = @ - 1,
                        !.tasks = FetchTasksEnd(tp.tasks, ok, list)]
  /\ UNCHANGED user
  /\ TaskFrame

\* a page calls createTask(taskData)
CreateTask ==
  /\ IsAuthenticated
  /\ tp.create = "idle"
  /\ tp' = [tp EXCEPT !.create = "await"]
  /\ UNCHANGED user
  /\ TaskFrame

CreateTaskRespond ==
  /\ tp.create = "await"
  /\ \E ok \in BOOLEAN, i \in TaskIds :
       /\ ok => Len(tp.tasks) < MaxTasks
       /\ tp' = [tp EXCEPT !.create = "idle",
                           !.tasks = CreateTaskEnd(tp.tasks, ok,
                                                   [id |-> i, v |-> 0])]
  /\ UNCHANGED user
  /\ TaskFrame

\* a page calls updateTask(id, taskData)
UpdateTask ==
  /\ IsAuthenticated
  /\ tp.update = 0
  /\ \E i \in TaskIds : tp' = [tp EXCEPT !.update = i]
  /\ UNCHANGED user
  /\ TaskFrame

UpdateTaskRespond ==
  /\ tp.update # 0
  /\ \E ok \in BOOLEAN :
       tp' = [tp EXCEPT !.update = 0,
                        !.tasks = UpdateTaskEnd(tp.tasks, ok, tp.update,
                                                [id |-> tp.update, v |-> 1])]
  /\ UNCHANGED user
  /\ TaskFrame

\* a page calls deleteTask(id)
DeleteTask ==
  /\ IsAuthenticated
  /\ tp.delete = 0
  /\ \E i \in TaskIds : tp' = [tp EXCEPT !.delete = i]
  /\ UNCHANGED user
  /\ TaskFrame

DeleteTaskRespond ==
  /\ tp.delete # 0
  /\ \E ok \in BOOLEAN :
       tp' = [tp EXCEPT !.delete = 0,
                        !.tasks = DeleteTaskEnd(tp.tasks, ok, tp.delete)]
  /\ UNCHANGED user
  /\ TaskFrame

TaskNext ==
  \/ SignIn
  \/ SignOut
  \/ AuthEffect
  \/ FetchTasks
  \/ FetchTasksRespond
  \/ CreateTask
  \/ CreateTaskRespond
  \/ UpdateTask
  \/ UpdateTaskRespond
  \/ DeleteTask
  \/ DeleteTaskRespond

TaskSpec == TaskInit /\ [][TaskNext]_vars

\* --------------------------------------------- the login page's own mapping
\* errorMessage.includes('user') || errorMessage.includes('email'), on the
\* texts login can return: only the generic text has a lower-case match
IncludesUserOrEmail(m) == m \in {GenericLoginMsg}

\* AuthPage.handleSubmit: the text shown after login returned ret
HandleSubmitError(ret) ==
  LET errorMessage == OrElse(ret.error, "Login failed") IN
  IF IncludesUserOrEmail(errorMessage) THEN "Invalid email or password"
  ELSE errorMessage

\* the message field of the backend's 401 for a wrong password and for an
\* unknown email
CredentialCauseMsgs == {"Invalid credentials", "User not found"}

\* =================================================================== claims
Unauthenticated == user = <<>>

StorageEmpty == lsToken = <<>> /\ lsUser = <<>>

\* no session operation is in flight
Quiet == pcInit.st = "done" /\ InFlight = 0

\* C1: after a login whose answer is a success carrying (token, user), the
\* 'token' entry is that token, the 'user' entry parses to that user record
\* and the in-memory user is that record.
C1_LoginStoresSession ==
  (last.op = "login" /\ last.ok)
    => /\ lsToken = last.tok
       /\ lsUser # <<>>
       /\ lsUser[1].json
       /\ <<JSONParseUser(lsUser[1])>> = last.usr
       /\ user = last.usr

C1_Witness ==
  /\ last.op = "login" /\ last.ok
  /\ last.usr # <<>> /\ last.usr[1].createdAt = Undef
  /\ user = last.usr

\* C2: when a logout call completes, neither entry is stored and the
\* in-memory user is absent, whatever became of the backend request.
C2_LogoutClears ==
  last.op = "logout" => StorageEmpty /\ Unauthenticated

C2_Witness ==
  last.op = "logout" /\ last.sent /\ last.branch = "rejected" /\ StorageEmpty

\* C3: refreshProfile called while the stored token's exp is in the past
\* ends Unauthenticated with both entries removed and sends no profile
\* request.
C3_RefreshExpired ==
  (last.op = "refreshProfile" /\ last.pastExp)
    => Unauthenticated /\ StorageEmpty /\ ~last.sent

C3_Witness ==
  last.op = "refreshProfile" /\ last.pastExp /\ ~last.sent /\ Unauthenticated

\* C4: when storage holds a token with exp in the past at construction, the
\* session is Unauthenticated and both entries are removed once
\* initializeAuth is over.
C4_InitExpired ==
  (last.op = "initializeAuth" /\ last.boot.tok # <<>>
     /\ ExpInPast(last.boot.tok[1], last.boot.now))
    => Unauthenticated /\ StorageEmpty

C4_Witness ==
  /\ last.op = "initializeAuth" /\ last.boot.tok # <<>>
  /\ ExpInPast(last.boot.tok[1], last.boot.now)
  /\ last.boot.usr # <<>> /\ last.boot.usr[1].json
  /\ StorageEmpty

\* C5: a logout called right after a logout ends in the same state
\* (Unauthenticated, empty storage, no timer), returns normally and sends no
\* backend request.
C5_LogoutIdempotent ==
  (last.op = "logout" /\ last.afterLogout)
    => /\ Unauthenticated /\ StorageEmpty /\ timer = "none"
       /\ last.ok /\ ~last.sent

C5_Witness ==
  last.op = "logout" /\ last.afterLogout /\ ~last.sent /\ timer = "none"

\* C6 (as stated): isTokenExpired is true for every token whose decoded exp
\* is before the clock, false for every well-formed token whose exp is not
\* before the clock, and the two copies agree.
C6_ExpiryComparison ==
  probe.done
    => /\ ExpInPast(probe.tok, probe.now) => probe.auth
       /\ (WellFormed(probe.tok)
             /\ probe.tok.exp * MsPerSecond >= probe.now) => ~probe.auth
       /\ probe.auth = probe.api

\* C7 (as stated): isTokenExpired is true for every malformed token.
C7_MalformedIsExpired ==
  (probe.done /\ Malformed(probe.tok)) => probe.auth /\ probe.api

\* C8 (as stated): isTokenExpired is true for a token whose payload is a
\* JSON object without a numeric exp.
C8_NoExpIsExpired ==
  (probe.done /\ probe.tok.segs = 3 /\ probe.tok.enc = "std"
     /\ probe.tok.body \in {"noexp", "strexp"}) => probe.auth

\* C9 (as stated): with no session operation in flight, the in-memory user
\* is present iff a non-expired token is stored.
C9_UserIffLiveToken ==
  Quiet => ((user # <<>>)
              <=> (lsToken # <<>> /\ ~IsTokenExpired(lsToken[1], nowMs)))

\* C9 (amended): with no session operation in flight, a stored non-expired
\* token implies that the in-memory user is present.
C9_LiveTokenImpliesUser ==
  (Quiet /\ lsToken # <<>> /\ ~IsTokenExpired(lsToken[1], nowMs))
    => user # <<>>

C9_Witness ==
  /\ Quiet /\ lsToken # <<>> /\ ~IsTokenExpired(lsToken[1], nowMs)
  /\ user # <<>> /\ last.op = "refreshProfile"

\* C10 (as stated): after a failed login the session is Unauthenticated and
\* the caller has success=false with a non-empty error message.
C10_FailedLoginUnauthenticated ==
  (last.op = "login" /\ ~last.ok)
    => Unauthenticated /\ last.err # Undef /\ last.err # ""

\* C10 (amended): a failed login returns success=false with a non-empty
\* error message and leaves the in-memory user as it was, absent or present.
C10_FailedLoginKeepsSession ==
  [][(last'.op = "login" /\ ~last'.ok)
       => (user' = user /\ last'.err # Undef /\ last'.err # "")]_vars

C10_Witness ==
  last.op = "login" /\ ~last.ok /\ user # <<>> /\ last.err # Undef

\* a 2xx answer with a well-shaped body
OkResponse == [kind |-> "ok", msg |-> ""]

\* C11: a register that succeeds with the answer (token, user) ends in the
\* state a successful login with that answer would have produced from the
\* same state: same 'token' entry, same 'user' entry, same in-memory user,
\* the interval started anew; the call is over, with no step in between.
C11_RegisterAsLogin ==
  [][(last'.op = "register" /\ last'.ok)
       => LET e == LoginEnd(Cur, OkResponse, last'.tok[1], last'.usr[1]).s IN
          /\ lsToken' = e.lsToken
          /\ lsUser' = e.lsUser
          /\ user' = e.user
          /\ timer' = e.timer
          /\ timer' = "running"
          /\ pcRegister' = "idle"]_vars

C11_Witness ==
  /\ last.op = "register" /\ last.ok /\ last.afterLogout
  /\ timer = "running" /\ user = last.usr /\ lsToken = last.tok

\* C12: when a refreshProfile call completes in any way other than with a
\* fetched profile (no token, expired token, 401, failure value or falsy body
\* from the endpoint, network error), neither entry is stored and the
\* in-memory user is absent.
C12_RefreshFailureTearsDown ==
  (last.op = "refreshProfile" /\ ~last.ok) => StorageEmpty /\ Unauthenticated

C12_Witness ==
  /\ last.op = "refreshProfile" /\ ~last.ok /\ last.sent
  /\ last.branch = "thrown" /\ StorageEmpty /\ Unauthenticated

C14_LogoutRequestIffLive ==
  [][(last'.op = "logout" => (last'.sent <=> last'.live))
     /\ ((pcLogout.st = "idle" /\ pcLogout'.st = "await") => StoredLive)]_vars

C14_Witness ==
  /\ last.op = "logout" /\ last.sent /\ last.live /\ last.branch = "ok"
  /\ StorageEmpty

\* C15 (as stated): in every reachable state where the interval is
\* scheduled, the in-memory user is present.
C15_TimerOnlyAuthenticated == timer = "running" => user # <<>>

\* the stored token as a run of the interval callback finds it
TickExpired == lsToken # <<>> /\ IsTokenExpired(lsToken[1], nowMs)

TickSoon ==
  /\ lsToken # <<>>
  /\ ~IsTokenExpired(lsToken[1], nowMs)
  /\ DecodeExp(lsToken[1]).numeric
  /\ DecodeExp(lsToken[1]).exp * MsPerSecond - nowMs
       < RefreshHorizon * MsPerSecond

\* C16: a run of the interval callback executes logout when isTokenExpired
\* reports the stored token expired (storage and user cleared, interval
\* cancelled); otherwise executes refreshProfile, which sends the profile
\* request, when the token has less than 600 seconds left; otherwise (600
\* seconds or more left, no exp to compare, or no token) changes neither
\* entry nor the in-memory user.
C16_TickBranches ==
  [][last'.tick # ""
       => /\ TickExpired
               => /\ last'.tick = "logout"
                  /\ lsToken' = <<>> /\ lsUser' = <<>> /\ user' = <<>>
                  /\ timer' = "none"
          /\ TickSoon
               => last'.tick = "refresh" /\ pcRefresh'.st = "await"
          /\ (~TickExpired /\ ~TickSoon)
               => /\ last'.tick = "none"
                  /\ UNCHANGED <<lsToken, lsUser, user>>]_vars

C16_Witness ==
  /\ last.tick = "refresh" /\ pcRefresh.st = "await" /\ pcRefresh.pastExp = FALSE
  /\ lsToken # <<>> /\ lsToken[1].exp * MsPerSecond - nowMs
                          < RefreshHorizon * MsPerSecond
  /\ user # <<>>

\* C17 (as stated): once a logout has completed or the provider has been
\* unmounted, the interval is not scheduled until a login or register
\* succeeds.
C17_NoTimerAfterTeardown == torn => timer # "running"

\* C18 (as stated): a 401 answer to a call other than login / register
\* yields a failure value, removes both entries and leaves the in-memory
\* user absent; a 401 answer to login or register leaves both entries as
\* they were.
C18_UnauthorizedTearsDown ==
  [][((last'.op = "api" /\ last'.branch = "s401")
        => /\ ~last'.ok
           /\ lsToken' = <<>> /\ lsUser' = <<>>
           /\ user' = <<>>)
     /\ ((last'.op \in {"login", "register"} /\ last'.branch = "s401")
          => UNCHANGED <<lsToken, lsUser>>)]_vars

\* C19: every method of the API client settles with a value that carries a
\* success flag and never rejects; for every failure outcome the flag is
\* false, and whenever the flag is false the error is a non-empty string.
C19_ClientNeverThrows ==
  req.done
    => /\ ~req.ret.threw
       /\ req.ret.success \in BOOLEAN
       /\ FailureOutcome => ~req.ret.success
       /\ ~req.ret.success => req.ret.error \notin {Undef, ""}

C19_Witness ==
  /\ req.done /\ req.method = "createTask" /\ req.tok # <<>>
  /\ req.o.net = "ok" /\ req.o.status = 500 /\ req.o.body = "object"
  /\ req.o.message = ""
  /\ ~req.ret.success /\ req.ret.error = StatusText(500)

\* C20: when the provider was constructed over a token that isTokenExpired
\* reports as not expired and a 'user' entry that is not JSON,
\* initializeAuth fetches the profile (unless the token has expired by the
\* time the effect runs); when the fetch succeeds, initialization is over
\* with the fetched user in memory and in the 'user' entry and the 'token'
\* entry as it was; when it fails, both entries are removed and the user is
\* absent.
C20_CorruptUserRefetched ==
  [][(/\ last'.op = "initializeAuth"
      /\ last'.boot.tok # <<>>
      /\ ~IsTokenExpired(last'.boot.tok[1], last'.boot.now)
      /\ last'.boot.usr = <<CorruptEntry>>)
       => /\ ~last'.sent => IsTokenExpired(last'.boot.tok[1], nowMs)
          /\ (last'.sent /\ last'.branch = "ok")
               => /\ pcInit'.st = "done"
                  /\ lsToken' = lsToken
                  /\ user' = <<ToUserData(last'.usr[1])>>
                  /\ lsUser' = <<JSONStringify(ToUserData(last'.usr[1]))>>
          /\ (last'.sent /\ last'.branch # "ok")
               => lsToken' = <<>> /\ lsUser' = <<>> /\ user' = <<>>]_vars

C20_Witness ==
  /\ last.op = "initializeAuth" /\ last.boot.usr = <<CorruptEntry>>
  /\ last.boot.tok # <<>> /\ last.sent /\ last.branch = "ok"
  /\ lsToken = last.boot.tok /\ user = last.usr
  /\ lsUser # <<>> /\ lsUser[1].json

\* C21 (as stated): right after construction the in-memory user is present
\* exactly when the 'user' entry parses and a token is stored for which
\* isTokenExpired is false.
C21_HydrationMatchesExpiry ==
  (pcInit.st = "start" /\ boot.now = nowMs)
    => ((user # <<>>)
          <=> /\ boot.usr # <<>> /\ boot.usr[1].json
              /\ boot.tok # <<>> /\ ~IsTokenExpired(boot.tok[1], boot.now))

\* C22 (as stated): no API client call changes the 'token' or the 'user'
\* entry; every change is made by a session-manager operation.
C22_OnlySessionManagerWrites ==
  [][(lsToken' # lsToken \/ lsUser' # lsUser) => last'.op # "api"]_vars

\* C23 (as stated): two failed logins that differ only in whether the
\* backend rejected an unknown email or a wrong password return the same
\* message from login, and the page shows the same text.
C23_LoginErrorHidesCause ==
  \A m1, m2 \in CredentialCauseMsgs :
    LET e1 == LoginEnd(Cur, [kind |-> "s401", msg |-> m1], AnyToken,
                       AnyUser).ret
        e2 == LoginEnd(Cur, [kind |-> "s401", msg |-> m2], AnyToken,
                       AnyUser).ret
    IN /\ e1.error = e2.error
       /\ HandleSubmitError(e1) = HandleSubmitError(e2)

\* C24: a profile answer that arrives when the 'token' entry is gone (a
\* logout completed while the request was in flight) is still applied: the
\* success handler sets the in-memory user and writes the 'user' entry, and
\* no token is stored afterwards.  The witness is such an interleaving.
C24_StaleRefreshApplied ==
  [][(last'.op = "refreshProfile" /\ last'.ok /\ lsToken = <<>>)
       => /\ user' = last'.usr
          /\ lsUser' = <<JSONStringify(ToUserData(last'.usr[1]))>>
          /\ lsToken' = <<>>]_vars

C24_Witness ==
  /\ last.op = "refreshProfile" /\ last.sent /\ last.ok
  /\ torn /\ mounted
  /\ lsToken = <<>> /\ lsUser # <<>> /\ user # <<>>

\* the step completes a login, register or refreshProfile call
AuthCallDone == last'.op \in {"login", "register", "refreshProfile"}

\* the calls of the other two kinds are where they were
OthersUntouched ==
  /\ last'.op # "login" => pcLogin' = pcLogin
  /\ last'.op # "register" => pcRegister' = pcRegister
  /\ last'.op # "refreshProfile" => pcRefresh' = pcRefresh

\* the in-memory user after the step is what this handler wrote: the
\* answered user on success, null after a failed refreshProfile; a failed
\* login or register writes nothing
LastWriteWins ==
  /\ last'.ok => user' = <<ToUserData(last'.usr[1])>>
  /\ (~last'.ok /\ last'.op = "refreshProfile") => user' = <<>>
  /\ (~last'.ok /\ last'.op # "refreshProfile") => user' = user

\* C25 (as stated): the completion of a login, register or refreshProfile
\* leaves the other calls in flight untouched, and the in-memory user is
\* the one its handler wrote.
C25_NoCancelLastWins ==
  [][AuthCallDone => (OthersUntouched /\ LastWriteWins)]_vars

\* C25 (amended): the same, except that a refreshProfile whose request
\* fails in a way that makes the API client clear the session away from '/'
\* reloads the page, which drops the calls in flight; in every other
\* completion the other calls are untouched.
C25_LastWriteWins ==
  [][AuthCallDone
       => /\ LastWriteWins
          /\ OthersUntouched
             \/ (last'.op = "refreshProfile" /\ ~last'.ok
                   /\ pcInit'.st = "start")]_vars

C25_Witness ==
  /\ last.op = "login" /\ last.ok /\ pcRegister = "await"
  /\ user = last.usr /\ lsToken = last.tok

\* C27: a login or register that fails, with a failure value or with an
\* error thrown in its handler, leaves the 'token' entry, the 'user' entry,
\* the in-memory user and the interval exactly as they were.
C27_FailedAuthChangesNothing ==
  [][(last'.op \in {"login", "register"} /\ ~last'.ok)
       => UNCHANGED <<lsToken, lsUser, user, timer>>]_vars

C27_Witness ==
  /\ last.op = "register" /\ ~last.ok /\ last.branch = "okShape"
  /\ last.err = NetworkErrorMsg
  /\ lsToken # <<>> /\ lsUser # <<>> /\ user # <<>> /\ timer = "running"

\* when both entries are present, the stored user is the profile of the
\* account the stored token was issued to
SameAccount(tokEntry, userEntry) ==
  (tokEntry # <<>> /\ userEntry # <<>> /\ userEntry[1].json)
    => AcctOf(JSONParseUser(userEntry[1])) = tokEntry[1].acct

\* C28 (as stated): no step of login, register, refreshProfile or logout,
\* in any interleaving, takes storage from a token and user of the same
\* account to a token and user of different accounts.
C28_TokenUserSameAccount ==
  [][SameAccount(lsToken, lsUser) => SameAccount(lsToken', lsUser')]_vars

\* C30 (as stated): an API client call other than login / register removes
\* the entries only when it found the stored token expired or the server
\* answered 401; after any other failure storage is as it was.
C30_ClearOnlyOnExpiryOr401 ==
  [][(last'.op = "api" /\ (lsToken' # lsToken \/ lsUser' # lsUser))
       => last'.branch \in {"expired", "s401"}]_vars

\* the session is Authenticated on a mounted provider and the stored
\* token's exp is in the past
SessionExpired == mounted /\ user # <<>> /\ StoredExpInPast

\* C26 (as stated): from a state where the session is Authenticated and the
\* stored token has expired, with the interval firing and requests
\* answered, the session eventually is Unauthenticated with both entries
\* removed (unless the provider is unmounted or a new token is stored
\* first).
C26_ExpiredSessionEnds ==
  SessionExpired
    ~> \/ Unauthenticated /\ StorageEmpty
       \/ ~mounted
       \/ lsToken # <<>> /\ ~StoredExpInPast

\* C29 (as stated): whenever the session is Unauthenticated and
\* TaskProvider's effect has run for it, the task list is empty, also when
\* a fetchTasks, createTask or updateTask request sent before the logout is
\* answered afterwards.
C29_TasksEmptyWhenSignedOut ==
  (~IsAuthenticated /\ tp.seen = "no") => tp.tasks = <<>>

====
